---- MODULE Spec2Model ----
(***************************************************************************)
(* pypants: the registration pass of PackageProcessor (discovery sweeps,   *)
(* dependency gathering, target graph) and the commands that use it.       *)
(*                                                                         *)
(* Paths and names are tuples of path components: "lib/a/src" is           *)
(* <<"lib","a","src">>, the package name "a" is <<"a">>.  A target is a     *)
(* record; two targets are the same member of a set and the same graph     *)
(* node when their keys are equal (BuildTarget.__eq__ / __hash__).         *)
(***************************************************************************)
EXTENDS Integers, Sequences, FiniteSets, TLC

VARIABLES pc, cmd, ignore_targets, targets, dependencies, target_graph,
          error, result, generated, checked, found,
          applied, arg, ret

vars == <<pc, cmd, ignore_targets, targets, dependencies, target_graph,
          error, result, generated, checked, found,
          applied, arg, ret>>

\* the variables of the specifications of single functions: the calls of
\* add_dependency made so far on one target, and the argument and the value
\* of one call of a function
unit_vars == <<applied, arg, ret>>

----------------------------------------------------------------------------
(* Bounds of the model *)

\* what one pass finds in an arbitrary repository, counted together: setup.py
\* files, project.sfn files, tests directories, extra targets, and (file
\* owner, imported name) pairs
MaxFound == 3
\* distinct names imported by the files of one package of the well-formed
\* repository
MaxImports == 2
\* calls of add_dependency made on one target
MaxApplied == 3
\* tasks of one project.sfn
MaxTasks == 2
\* import statements of one module
MaxStatements == 2
\* setup.py files of one code sweep on its own
MaxWalk == 2
\* files of one dependency phase, step by step
MaxPaths == 3
\* setup.py files of a code sweep over package folders with equal names
MaxDuplicateWalk == 4

----------------------------------------------------------------------------
(* Sets and sequences *)

Range(f) == { f[x] : x \in DOMAIN f }

EmptyMap == [x \in {} |-> x]

Put(f, k, v) == [x \in DOMAIN f \cup {k} |-> IF x = k THEN v ELSE f[x]]

\* the subsets of S with at most k elements
RECURSIVE SubsetsUpTo(_, _)
SubsetsUpTo(S, k) ==
    IF k = 0 \/ S = {} THEN {{}}
    ELSE LET x == CHOOSE y \in S : TRUE
             rest == S \ {x}
         IN SubsetsUpTo(rest, k)
            \cup { T \cup {x} : T \in SubsetsUpTo(rest, k - 1) }

\* the sequences without repetition of at most k elements of S
RECURSIVE SeqsUpTo(_, _)
SeqsUpTo(S, k) ==
    IF k = 0 \/ S = {} THEN {<<>>}
    ELSE {<<>>} \cup UNION { { <<x>> \o s : s \in SeqsUpTo(S \ {x}, k - 1) }
                             : x \in S }

----------------------------------------------------------------------------
(* The repository the pass may find *)

\* package folder names, which are also the names a module can import
Names == { <<"a">>, <<"b">>, <<"c">> }

\* names that appear in import statements: the packages, a third-party
\* module and a module that is neither
ImportNames == Names \cup { <<"r">>, <<"z">> }

\* requirements.THIRD_PARTY_IMPORT_MAP: import name -> requirement name;
\* "a" is both a package of the repository and a published distribution
THIRD_PARTY_IMPORT_MAP ==
    [n \in { <<"r">>, <<"a">> } |-> IF n = <<"r">> THEN <<"R">> ELSE <<"A">>]

\* directories holding a setup.py, as (top_dir_name, package_dir_name), and
\* the package folder their src/ holds; lib/a_old is a stale copy of lib/a,
\* stepfunctions/projects has its src/ where a project folder may be
SetupDirs ==
    { [top |-> <<"lib">>, rel |-> <<"a">>, name |-> <<"a">>],
      [top |-> <<"lib">>, rel |-> <<"b">>, name |-> <<"b">>],
      [top |-> <<"lib">>, rel |-> <<"c">>, name |-> <<"c">>],
      [top |-> <<"lib">>, rel |-> <<"a_old">>, name |-> <<"a">>],
      [top |-> <<"stepfunctions">>, rel |-> <<"projects">>, name |-> <<"c">>] }

\* what src/ of such a directory holds: "none" no src directory, "empty" no
\* package folder, "one" the package folder, "many" two package folders
SrcListings == { "none", "empty", "one", "many" }

\* one entry of setup_py_paths together with what is on disk next to it
WalkEntries ==
    { [top |-> d.top, rel |-> d.rel, name |-> d.name, src |-> l]
      : d \in SetupDirs, l \in SrcListings }

SameDir(e1, e2) == e1.top = e2.top /\ e1.rel = e2.rel

\* the walks of an arbitrary repository: every setup.py is found once
AnyWalks(left) ==
    UNION { { w \in [1..n -> WalkEntries] :
                \A i, j \in 1..n : i # j => ~SameDir(w[i], w[j]) }
            : n \in 0..left }

WellFormedEntry(n) ==
    [top |-> <<"lib">>, rel |-> n, name |-> n, src |-> "one"]

\* the walks of the well-formed repository lib/a, lib/b, lib/c
CleanWalks(left) ==
    { w \in [1..3 -> { WellFormedEntry(n) : n \in Names }] :
        \A i, j \in 1..3 : i # j => ~SameDir(w[i], w[j]) }

\* setup_py_paths in the repository the pass runs in
Walks(repository, left) ==
    IF repository = "well-formed" THEN CleanWalks(left) ELSE AnyWalks(left)

\* folders of stepfunctions/projects that hold a project.sfn
ProjectDirNames == { "w", "src" }

\* the glob results of an arbitrary repository, in any order
AnyProjects(left) == SeqsUpTo(ProjectDirNames, left)

NoProjects(left) == {<<>>}

Projects(repository, left) ==
    IF repository = "well-formed" THEN NoProjects(left) ELSE AnyProjects(left)

\* the fixed list of test categories, process_packages.py:228
TestDirTypes == <<"unit", "functional", "component">>

\* the tests directories that may exist: tests/<category> of every directory
\* that can own a target
TestDirCandidates ==
    { d \o <<"tests", TestDirTypes[i]>> :
        d \in { e.top \o e.rel : e \in SetupDirs }
              \cup { <<"stepfunctions", "projects", n>> : n \in ProjectDirNames },
        i \in DOMAIN TestDirTypes }

AnyTestDirs(left) == SubsetsUpTo(TestDirCandidates, left)

NoTestDirs(left) == {{}}

TestDirs(repository, left) ==
    IF repository = "well-formed" THEN NoTestDirs(left) ELSE AnyTestDirs(left)

----------------------------------------------------------------------------
(* Targets *)

NoName == <<>>

\* PythonPackage.__init__: the key of a target is its build_dir
PythonPackage(target_type, top_dir_name, package_dir_name, build_dir, package_name, code_target_package_name) ==
    [ key |-> build_dir,
      package_name |-> package_name,
      target_type |-> target_type,
      top_dir_name |-> top_dir_name,
      package_dir_name |-> package_dir_name,
      code_target_package_name |-> code_target_package_name ]

\* PythonRequirement.__init__: key is "<REQUIREMENTS_DIR>:<package_name>"
PythonRequirement(package_name) ==
    [ key |-> <<"3rdparty", "python", ":">> \o package_name,
      package_name |-> package_name,
      target_type |-> "requirement",
      top_dir_name |-> NoName,
      package_dir_name |-> NoName,
      code_target_package_name |-> NoName ]

\* isinstance(d, PythonRequirement)
IsRequirement(t) == t.target_type = "requirement"

\* set.add under BuildTarget.__eq__/__hash__: a member with the same key stays
SetAdd(S, t) == IF \E x \in S : x.key = t.key THEN S ELSE S \cup {t}

\* the target built for a setup.py entry, process_packages.py:197-206
CodeTarget(e) ==
    PythonPackage("code", e.top, e.rel, e.top \o e.rel \o <<"src">>, e.name, NoName)

\* the target built for a tests directory, process_packages.py:229-250
TestTarget(code_target, tests_dir_type) ==
    LET tests_dir == code_target.top_dir_name \o code_target.package_dir_name
                     \o <<"tests", tests_dir_type>>
    IN PythonPackage("tests", code_target.top_dir_name,
                     code_target.package_dir_name, tests_dir, tests_dir,
                     code_target.package_name)

\* the target built for a project.sfn, process_packages.py:266-275
ProjectTarget(n) ==
    LET project_path == <<"stepfunctions", "projects", n>>
    IN PythonPackage("py2sfn-project", <<"stepfunctions", "projects">>, <<n>>,
                     project_path, project_path, NoName)

----------------------------------------------------------------------------
(* sorted() of registry keys *)

\* the path components of the model in the order Python compares them
Components ==
    <<"a", "a_old", "b", "c", "component", "ext", "functional", "lib", "missing",
      "projects", "src", "stepfunctions", "tests", "unit", "w">>

Rank(c) == CHOOSE i \in DOMAIN Components : Components[i] = c

\* "/".join(p) < "/".join(q): "/" sorts below every character of a component
RECURSIVE PathLess(_, _)
PathLess(p, q) ==
    IF q = <<>> THEN FALSE
    ELSE IF p = <<>> THEN TRUE
    ELSE IF Head(p) # Head(q) THEN Rank(Head(p)) < Rank(Head(q))
    ELSE PathLess(Tail(p), Tail(q))

RECURSIVE sorted(_)
sorted(S) ==
    IF S = {} THEN <<>>
    ELSE LET least == CHOOSE x \in S : \A y \in S \ {x} : PathLess(x, y)
         IN <<least>> \o sorted(S \ {least})

----------------------------------------------------------------------------
(* Errors *)

\* an exception: its class and what its message or arguments carry
\* (NoTargetFound: the key asked for and the available keys;
\* CircularImportsFound: the cycles)
NoError == [type |-> "none", target_key |-> <<>>, keys |-> <<>>, cycles |-> {}]

Raise(type) == [type |-> type, target_key |-> <<>>, keys |-> <<>>, cycles |-> {}]

\* exceptions.DuplicateTarget with the message of process_packages.py:210-214
\* and 279-283; keys are the names the message reports
DuplicateTarget(name) ==
    [type |-> "DuplicateTarget", target_key |-> <<>>, keys |-> <<name>>,
     cycles |-> {}]

\* exceptions.NoTargetFound with the message of process_packages.py:356-359
NoTargetFound(target_key, tg) ==
    [type |-> "NoTargetFound", target_key |-> target_key,
     keys |-> sorted(DOMAIN tg), cycles |-> {}]

\* exceptions.CircularImportsFound(cycles)
\* networkx.NetworkXUnfeasible out of nx.topological_sort, with the key the
\* call was given
NetworkXUnfeasible(target_key) ==
    [type |-> "NetworkXUnfeasible", target_key |-> target_key, keys |-> <<>>,
     cycles |-> {}]

CircularImportsFound(cycles) ==
    [type |-> "CircularImportsFound", target_key |-> <<>>, keys |-> <<>>,
     cycles |-> cycles]

----------------------------------------------------------------------------
(* Discovery sweeps *)

\* a code sweep for which an empty src directory is fatal as well
RECURSIVE register_code_loop_empty_fatal(_, _, _)
register_code_loop_empty_fatal(walk, tg, ignore) ==
    IF walk = <<>> THEN [targets |-> tg, error |-> NoError]
    ELSE LET e == Head(walk)
             target == CodeTarget(e)
         IN CASE e.src = "none" ->
                    register_code_loop_empty_fatal(Tail(walk), tg, ignore)
              [] e.src \in {"empty", "many"} ->
                    [targets |-> tg, error |-> Raise("MultipleSourcePackagesFound")]
              [] OTHER ->
                    IF target.key \in ignore
                    THEN register_code_loop_empty_fatal(Tail(walk), tg, ignore)
                    ELSE IF e.name \in DOMAIN tg
                    THEN [targets |-> tg, error |-> DuplicateTarget(e.name)]
                    ELSE register_code_loop_empty_fatal(Tail(walk),
                                                        Put(tg, e.name, target),
                                                        ignore)

\* the loop of _register_task_targets_code over setup_py_paths; the result is
\* the registry and the error raised, if any
RECURSIVE register_code_loop(_, _, _)
register_code_loop(walk, tg, ignore) ==
    IF walk = <<>> THEN [targets |-> tg, error |-> NoError]
    ELSE LET e == Head(walk)
             target == CodeTarget(e)
         IN CASE e.src = "none" -> register_code_loop(Tail(walk), tg, ignore)
              [] e.src = "empty" -> register_code_loop(Tail(walk), tg, ignore)
              [] e.src = "many" ->
                    [targets |-> tg, error |-> Raise("MultipleSourcePackagesFound")]
              [] OTHER ->
                    IF target.key \in ignore
                    THEN register_code_loop(Tail(walk), tg, ignore)
                    ELSE IF e.name \in DOMAIN tg
                    THEN [targets |-> tg, error |-> DuplicateTarget(e.name)]
                    ELSE register_code_loop(Tail(walk),
                                            Put(tg, e.name, target), ignore)

\* the loop of _register_task_targets_py2sfn_projects over the glob result
RECURSIVE register_projects_loop(_, _, _)
register_projects_loop(projects, tg, ignore) ==
    IF projects = <<>> THEN [targets |-> tg, error |-> NoError]
    ELSE LET target == ProjectTarget(Head(projects))
         IN IF target.key \in ignore
            THEN register_projects_loop(Tail(projects), tg, ignore)
            ELSE IF target.key \in DOMAIN tg
            THEN [targets |-> tg, error |-> DuplicateTarget(target.key)]
            ELSE register_projects_loop(Tail(projects),
                                        Put(tg, target.key, target), ignore)

\* the inner loop of _register_task_targets_tests over the test categories
RECURSIVE register_tests_of(_, _, _, _, _)
register_tests_of(code_target, i, tg, testdirs, ignore) ==
    IF i > Len(TestDirTypes) THEN tg
    ELSE LET target == TestTarget(code_target, TestDirTypes[i])
         IN IF target.key \notin testdirs \/ target.key \in ignore
            THEN register_tests_of(code_target, i + 1, tg, testdirs, ignore)
            ELSE register_tests_of(code_target, i + 1,
                                   Put(tg, target.key, target), testdirs, ignore)

\* the outer loop of _register_task_targets_tests over the copied registry
RECURSIVE register_tests_loop(_, _, _, _)
register_tests_loop(owners, tg, testdirs, ignore) ==
    IF owners = <<>> THEN tg
    ELSE register_tests_loop(Tail(owners),
                             register_tests_of(Head(owners), 1, tg, testdirs, ignore),
                             testdirs, ignore)

\* what .pypants/targets.py gives: no such file, or the dictionary its
\* register_extra_targets returns
ExtraTarget(n, top) ==
    PythonPackage("code", top, n, top \o n \o <<"src">>, n, NoName)

NoExtraTargets == [exists |-> FALSE, targets |-> EmptyMap]

AnyExtraTargets(left) ==
    { x \in { NoExtraTargets,
              [exists |-> TRUE, targets |-> EmptyMap],
              [exists |-> TRUE,
               targets |-> Put(EmptyMap, <<"a">>, ExtraTarget(<<"a">>, <<"ext">>))],
              [exists |-> TRUE,
               targets |-> Put(EmptyMap, <<"b">>, ExtraTarget(<<"b">>, <<"lib">>))] } :
        Cardinality(DOMAIN x.targets) <= left }

OnlyNoExtraTargets(left) == {NoExtraTargets}

Extras(repository, left) ==
    IF repository = "well-formed"
    THEN OnlyNoExtraTargets(left) ELSE AnyExtraTargets(left)

\* PROJECT_CONFIG.ignore_targets of an arbitrary repository
AnyIgnoreTargets == { {}, { <<"lib", "b", "src">> } }

----------------------------------------------------------------------------
(* Dependency resolution *)

\* add_dependency that assigns the dependency instead of adding it
add_dependency_assign(self, tg, package_name, deps) ==
    IF package_name \in DOMAIN tg /\ package_name # self.package_name
    THEN {tg[package_name]}
    ELSE IF package_name \in DOMAIN THIRD_PARTY_IMPORT_MAP
    THEN {PythonRequirement(THIRD_PARTY_IMPORT_MAP[package_name])}
    ELSE deps

\* add_dependency that looks the name up in the third-party table first
add_dependency_third_party_first(self, tg, package_name, deps) ==
    IF package_name \in DOMAIN THIRD_PARTY_IMPORT_MAP
    THEN SetAdd(deps, PythonRequirement(THIRD_PARTY_IMPORT_MAP[package_name]))
    ELSE IF package_name \in DOMAIN tg /\ package_name # self.package_name
    THEN SetAdd(deps, tg[package_name])
    ELSE deps

\* PythonPackage.add_dependency on the dependency set deps of target self
add_dependency(self, tg, package_name, deps) ==
    IF package_name \in DOMAIN tg /\ package_name # self.package_name
    THEN SetAdd(deps, tg[package_name])
    ELSE IF package_name \in DOMAIN THIRD_PARTY_IMPORT_MAP
    THEN SetAdd(deps, PythonRequirement(THIRD_PARTY_IMPORT_MAP[package_name]))
    ELSE deps

\* the loop "for package_name in package_names: target.add_dependency(...)"
RECURSIVE add_dependencies(_, _, _, _)
add_dependencies(self, tg, package_names, deps) ==
    IF package_names = {} THEN deps
    ELSE LET n == CHOOSE x \in package_names : TRUE
         IN add_dependencies(self, tg, package_names \ {n},
                             add_dependency(self, tg, n, deps))

\* the part of a string, a list of its pieces, before the first separator:
\* str.split(sep)[0]
RECURSIVE SplitFirst(_, _)
SplitFirst(str, sep) ==
    IF str = <<>> \/ Head(str) = sep THEN <<>>
    ELSE <<Head(str)>> \o SplitFirst(Tail(str), sep)

\* the package of a worker spec "my_package.module:ClassName":
\* module, _ = spec.split(":"); module.split(".")[0]
worker_package_name(spec) == SplitFirst(SplitFirst(spec, ":"), ".")

\* set_extra_dependencies that does not look at the service of a task
set_extra_dependencies_any_service(self, tg, tasks, deps) ==
    IF self.target_type = "py2sfn-project"
    THEN add_dependencies(self, tg,
                          { worker_package_name(t.spec) : t \in tasks }, deps)
    ELSE deps

\* set_extra_dependencies: PY2SFNProjectPackage resolves the package of every
\* ecs:worker spec of its project.sfn; for every other target it is the no-op
\* that process_packages.py:100-101 describes.  Every spec holds one ":".
set_extra_dependencies(self, tg, tasks, deps) ==
    IF self.target_type = "py2sfn-project"
    THEN add_dependencies(self, tg,
                          { worker_package_name(t.spec) :
                              t \in { x \in tasks : x.service = "ecs:worker" } },
                          deps)
    ELSE deps

\* the ecs:worker task of a project.sfn whose spec names a module of package n
WorkerTask(n) ==
    [service |-> "ecs:worker", spec |-> n \o <<".", "mod", ":", "Class">>]

\* what the scan of the repository finds: for every registered target the
\* names its files import and, for a project, the tasks of its project.sfn
ScanOf(tg, S) ==
    [k \in DOMAIN tg |->
        [imports |-> { n \in ImportNames : <<k, "import", n>> \in S },
         tasks |-> { WorkerTask(n) : n \in { x \in Names : <<k, "worker", x>> \in S } }]]

AnyScans(tg, left) ==
    LET pairs == { <<k, "import", n>> : k \in DOMAIN tg, n \in ImportNames }
                 \cup { <<k, "worker", n>> :
                          k \in { x \in DOMAIN tg : tg[x].target_type = "py2sfn-project" },
                          n \in Names }
    IN { ScanOf(tg, S) : S \in SubsetsUpTo(pairs, left) }

CleanScans(tg, left) ==
    [DOMAIN tg -> { [imports |-> I, tasks |-> {}]
                    : I \in SubsetsUpTo(ImportNames, MaxImports) }]

Scans(repository, tg, left) ==
    IF repository = "well-formed" THEN CleanScans(tg, left) ELSE AnyScans(tg, left)

----------------------------------------------------------------------------
(* Target graph *)

RECURSIVE SetToSeq(_)
SetToSeq(S) ==
    IF S = {} THEN <<>>
    ELSE LET x == CHOOSE y \in S : TRUE IN <<x>> \o SetToSeq(S \ {x})

\* self._targets.values() in insertion order: the code sweep, the project
\* sweep, the test sweep
ValuesOf(tg) ==
    SetToSeq({ t \in Range(tg) : t.target_type = "code" })
    \o SetToSeq({ t \in Range(tg) : t.target_type = "py2sfn-project" })
    \o SetToSeq({ t \in Range(tg) : t.target_type \notin {"code", "py2sfn-project"} })

EmptyGraph == [nodes |-> {}, edges |-> {}]

\* add_target with every edge from the dependency to the target
add_target_reversed(G, target, deps) ==
    LET ds == SetToSeq(deps)
        AddAll[i \in 0..Len(ds)] ==
            IF i = 0 THEN SetAdd(G.nodes, target) ELSE SetAdd(AddAll[i - 1], ds[i])
    IN [nodes |-> AddAll[Len(ds)],
        edges |-> G.edges \cup { <<d.key, target.key>> : d \in deps }]

\* G.add_node(target) and G.add_edge(target, dependency) for every dependency
add_target(G, target, deps) ==
    LET ds == SetToSeq(deps)
        AddAll[i \in 0..Len(ds)] ==
            IF i = 0 THEN SetAdd(G.nodes, target) ELSE SetAdd(AddAll[i - 1], ds[i])
    IN [nodes |-> AddAll[Len(ds)],
        edges |-> G.edges \cup { <<target.key, d.key>> : d \in deps }]

\* a loop that leaves out the targets that have no dependency
RECURSIVE build_graph_loop_skip_isolated(_, _, _, _)
build_graph_loop_skip_isolated(names, tg, deps, G) ==
    IF names = <<>> THEN G
    ELSE build_graph_loop_skip_isolated(
             Tail(names), tg, deps,
             IF deps[Head(names)] = {} THEN G
             ELSE add_target(G, tg[Head(names)], deps[Head(names)]))

\* the loop of _build_target_graph over the registry
RECURSIVE build_graph_loop(_, _, _, _)
build_graph_loop(names, tg, deps, G) ==
    IF names = <<>> THEN G
    ELSE build_graph_loop(Tail(names), tg, deps,
                          add_target(G, tg[Head(names)], deps[Head(names)]))

\* the registry keys in the order of ValuesOf
KeysOf(tg) ==
    LET vs == ValuesOf(tg)
    IN [i \in DOMAIN vs |-> CHOOSE k \in DOMAIN tg : tg[k] = vs[i]]

NodeKeys(G) == { n.key : n \in G.nodes }

Successors(G, k) == { e[2] : e \in { x \in G.edges : x[1] = k } }

\* nx.descendants: the nodes reached from source by one or more edges, source
\* itself left out
RECURSIVE Reach(_, _, _)
Reach(G, frontier, seen) ==
    LET next == UNION { Successors(G, k) : k \in frontier } \ seen
    IN IF next = {} THEN seen ELSE Reach(G, next, seen \cup next)

\* descendants that stops at the direct successors
descendants_direct(G, source) == Successors(G, source) \ {source}

descendants(G, source) == Reach(G, {source}, {source}) \ {source}

\* G.subgraph(nodes) copied into a new DiGraph
subgraph(G, keys) ==
    [nodes |-> { n \in G.nodes : n.key \in keys },
     edges |-> { e \in G.edges : e[1] \in keys /\ e[2] \in keys }]

\* nx.topological_sort: the node of no remaining predecessor comes next (Kahn);
\* which of several such nodes comes first depends on the insertion order of
\* the graph, so every order Kahn's algorithm can give is a result.  The set
\* is empty when the graph has a cycle (NetworkXUnfeasible).
RECURSIVE topological_sort(_, _)
topological_sort(keys, edges) ==
    IF keys = {} THEN {<<>>}
    ELSE LET zero_indegree ==
                 { k \in keys : ~\E e \in edges : e[2] = k /\ e[1] \in keys }
         IN UNION { { <<k>> \o s : s \in topological_sort(keys \ {k}, edges) }
                    : k \in zero_indegree }

\* nx.simple_cycles: every elementary circuit once, as a list of nodes.  The
\* circuits through order[i] that stay within order[i..] are found by
\* extending a path from order[i] (Johnson); a self-loop is the circuit <<k>>.
RECURSIVE CircuitsFrom(_, _, _)
CircuitsFrom(G, path, allowed) ==
    LET last == path[Len(path)]
        succ == Successors(G, last)
        closed == IF path[1] \in succ THEN {path} ELSE {}
        onward == { v \in succ : v \in allowed /\ \A i \in DOMAIN path : path[i] # v }
    IN closed \cup UNION { CircuitsFrom(G, Append(path, v), allowed) : v \in onward }

\* simple_cycles that starts a search at every node without narrowing it
simple_cycles_unrestricted(G) ==
    UNION { CircuitsFrom(G, <<k>>, NodeKeys(G)) : k \in NodeKeys(G) }

simple_cycles(G) ==
    LET order == SetToSeq(NodeKeys(G))
    IN UNION { CircuitsFrom(G, <<order[i]>>,
                            { order[j] : j \in i..Len(order) })
               : i \in DOMAIN order }

----------------------------------------------------------------------------
(* The commands: cli.process_packages, cli.compute_package_dependencies and  *)
(* PackageGenerator.create_build_file (cli.generate_package) each construct  *)
(* a PackageProcessor and call register_packages first.                      *)

Commands == { "process_packages", "compute_package_dependencies", "generate_package" }

\* what compute_package_dependencies was asked and what it returned; sorted
\* is its local list before the requirements are dropped
NoResult ==
    [target_key |-> <<>>, include_3rdparty |-> FALSE, sorted |-> <<>>,
     dependencies |-> <<>>]

\* no call of add_dependency made, no function called
NoApplied == [self |-> <<>>, names |-> <<>>]

NoValue == <<>>

\* PackageProcessor.__init__, in a repository with the given configuration
InitWith(IgnoreConfigs) ==
    /\ cmd \in Commands
    /\ ignore_targets \in IgnoreConfigs
    /\ pc = "register_task_targets_code"
    /\ targets = EmptyMap
    /\ dependencies = EmptyMap
    /\ target_graph = EmptyGraph
    /\ error = NoError
    /\ result = NoResult
    /\ generated = {}
    /\ checked = FALSE
    /\ found = 0
    /\ applied = NoApplied
    /\ arg = NoValue
    /\ ret = NoValue

\* every new target starts with an empty dependency set; the set of a target
\* that stays registered is kept
FreshDependencies(tg) ==
    [k \in DOMAIN tg |-> IF k \in DOMAIN targets /\ targets[k] = tg[k]
                         THEN dependencies[k] ELSE {}]

register_task_targets_code(repository) ==
    /\ pc = "register_task_targets_code"
    /\ \E walk \in Walks(repository, MaxFound - found) :
         LET r == register_code_loop(walk, targets, ignore_targets)
         IN /\ found' = found + Len(walk)
            /\ targets' = r.targets
            /\ dependencies' = FreshDependencies(r.targets)
            /\ error' = r.error
            /\ pc' = IF r.error = NoError
                     THEN "register_task_targets_py2sfn_projects" ELSE "failed"
    /\ UNCHANGED <<unit_vars, cmd, ignore_targets, target_graph, result, generated, checked>>

register_task_targets_py2sfn_projects(repository) ==
    /\ pc = "register_task_targets_py2sfn_projects"
    /\ \E project_paths \in Projects(repository, MaxFound - found) :
         LET r == register_projects_loop(project_paths, targets, ignore_targets)
         IN /\ found' = found + Len(project_paths)
            /\ targets' = r.targets
            /\ dependencies' = FreshDependencies(r.targets)
            /\ error' = r.error
            /\ pc' = IF r.error = NoError
                     THEN "register_task_targets_tests" ELSE "failed"
    /\ UNCHANGED <<unit_vars, cmd, ignore_targets, target_graph, result, generated, checked>>

register_task_targets_tests(repository) ==
    /\ pc = "register_task_targets_tests"
    /\ \E testdirs \in TestDirs(repository, MaxFound - found) :
         LET tg == register_tests_loop(ValuesOf(targets), targets, testdirs,
                                       ignore_targets)
         IN /\ found' = found + Cardinality(testdirs)
            /\ targets' = tg
            /\ dependencies' = FreshDependencies(tg)
    /\ pc' = "register_extra_targets"
    /\ UNCHANGED <<unit_vars, cmd, ignore_targets, target_graph, error, result, generated, checked>>

\* an update that keeps the entries that were registered already
update_keep_registered(tg, extra) ==
    [k \in DOMAIN tg \cup DOMAIN extra |->
       IF k \in DOMAIN tg THEN tg[k] ELSE extra[k]]

\* dict.update: self._targets.update(targets)
update(tg, extra) ==
    [k \in DOMAIN tg \cup DOMAIN extra |->
       IF k \in DOMAIN extra THEN extra[k] ELSE tg[k]]

\* _register_extra_targets: self._targets.update(targets), after a warning
\* for the keys that were registered already
register_extra_targets(repository) ==
    /\ pc = "register_extra_targets"
    /\ \E extra \in Extras(repository, MaxFound - found) :
         LET tg == IF extra.exists
                   THEN update(targets, extra.targets)
                   ELSE targets
         IN /\ found' = found + Cardinality(DOMAIN extra.targets)
            /\ targets' = tg
            /\ dependencies' = FreshDependencies(tg)
    /\ pc' = "gather_dependencies"
    /\ UNCHANGED <<unit_vars, cmd, ignore_targets, target_graph, error, result, generated, checked>>

\* _gather_dependencies: the scan of every file in the pool, then
\* add_dependency for every name found, then set_extra_dependencies for every
\* target.  A file that does not parse raises out of pool.map.
gather_dependencies(repository) ==
    /\ pc = "gather_dependencies"
    /\ \/ \E scan \in Scans(repository, targets, MaxFound - found) :
            LET imported == [k \in DOMAIN targets |->
                               add_dependencies(targets[k], targets,
                                                scan[k].imports, dependencies[k])]
            IN /\ dependencies' =
                     [k \in DOMAIN targets |->
                        set_extra_dependencies(targets[k], targets,
                                               scan[k].tasks, imported[k])]
               /\ pc' = "build_target_graph"
               /\ UNCHANGED error
       \/ /\ targets # EmptyMap
          /\ error' = Raise("SyntaxError")
          /\ pc' = "failed"
          /\ UNCHANGED dependencies
    /\ UNCHANGED <<unit_vars, cmd, ignore_targets, targets, target_graph, result, generated,
                   checked, found>>

build_target_graph ==
    /\ pc = "build_target_graph"
    /\ target_graph' = build_graph_loop(KeysOf(targets), targets, dependencies,
                                        EmptyGraph)
    /\ pc' = "registered"
    /\ UNCHANGED <<unit_vars, cmd, ignore_targets, targets, dependencies, error, result,
                   generated, checked, found>>

\* ensure_no_circular_imports, called by cli.process_packages
ensure_no_circular_imports ==
    /\ pc = "registered"
    /\ cmd = "process_packages"
    /\ LET cycles == simple_cycles(target_graph)
       IN IF cycles # {}
          THEN /\ error' = CircularImportsFound(cycles)
               /\ pc' = "failed"
               /\ UNCHANGED checked
          ELSE /\ checked' = TRUE
               /\ pc' = "generate_build_files"
               /\ UNCHANGED error
    /\ UNCHANGED <<unit_vars, cmd, ignore_targets, targets, dependencies, target_graph,
                   result, generated, found>>

\* generate_build_files with no target pattern, called by cli.process_packages
generate_build_files ==
    /\ pc = "generate_build_files"
    /\ generated' = DOMAIN targets
    /\ pc' = "done"
    /\ UNCHANGED <<unit_vars, cmd, ignore_targets, targets, dependencies, target_graph,
                   error, result, checked, found>>

\* generate_build_file, called by PackageGenerator.create_build_file with the
\* name of the package it has just created
generate_build_file ==
    /\ pc = "registered"
    /\ cmd = "generate_package"
    /\ \E target_key \in Names :
         IF target_key \in DOMAIN targets
         THEN /\ generated' = {target_key}
              /\ pc' = "done"
              /\ UNCHANGED error
         ELSE /\ error' = Raise("KeyError")
              /\ pc' = "failed"
              /\ UNCHANGED generated
    /\ UNCHANGED <<unit_vars, cmd, ignore_targets, targets, dependencies, target_graph,
                   result, checked, found>>

\* the keys a caller may ask for: registry keys, target keys, an unknown key
QueryKeys == DOMAIN targets \cup { t.key : t \in Range(targets) } \cup { <<"missing">> }

\* a filter on the name instead of the class of the dependency
first_party_by_name(deps) ==
    SelectSeq(deps, LAMBDA d : d.package_name \notin DOMAIN THIRD_PARTY_IMPORT_MAP
                               /\ d.package_name \notin Range(THIRD_PARTY_IMPORT_MAP))

\* the list comprehension that drops the requirements
first_party(deps) == SelectSeq(deps, LAMBDA d : ~IsRequirement(d))

\* the target objects of a list of node keys
NodesOf(G, ks) == [i \in DOMAIN ks |-> CHOOSE n \in G.nodes : n.key = ks[i]]

\* PackageProcessor.compute_package_dependencies, called by
\* cli.compute_package_dependencies
compute_package_dependencies ==
    /\ pc = "registered"
    /\ cmd = "compute_package_dependencies"
    /\ \E target_key \in QueryKeys, include_3rdparty \in BOOLEAN :
         IF target_key \notin DOMAIN targets
         THEN /\ error' = NoTargetFound(target_key, targets)
              /\ pc' = "failed"
              /\ UNCHANGED result
         ELSE LET target == targets[target_key]
                  deps == descendants(target_graph, target.key)
                  sub == subgraph(target_graph, deps)
                  orders == topological_sort(NodeKeys(sub), sub.edges)
              IN IF orders = {}
                 THEN /\ error' = NetworkXUnfeasible(target_key)
                      /\ pc' = "failed"
                      /\ UNCHANGED result
                 ELSE /\ \E order \in orders :
                           LET sorted_deps == NodesOf(sub, order)
                           IN result' = [target_key |-> target_key,
                                         include_3rdparty |-> include_3rdparty,
                                         sorted |-> sorted_deps,
                                         dependencies |->
                                            IF include_3rdparty THEN sorted_deps
                                            ELSE first_party(sorted_deps)]
                      /\ pc' = "done"
                      /\ UNCHANGED error
    /\ UNCHANGED <<unit_vars, cmd, ignore_targets, targets, dependencies, target_graph,
                   generated, checked, found>>

----------------------------------------------------------------------------
(* Specifications *)

\* any repository: stale copies, project folders, tests, extra targets
Init == InitWith(AnyIgnoreTargets)

Next ==
    \/ register_task_targets_code("any")
    \/ register_task_targets_py2sfn_projects("any")
    \/ register_task_targets_tests("any")
    \/ register_extra_targets("any")
    \/ gather_dependencies("any")
    \/ build_target_graph
    \/ ensure_no_circular_imports
    \/ generate_build_files
    \/ generate_build_file
    \/ compute_package_dependencies

Spec == Init /\ [][Next]_vars

\* the well-formed repository lib/a, lib/b, lib/c, its files importing any
\* names
InitClean == InitWith({{}})

NextClean ==
    \/ register_task_targets_code("well-formed")
    \/ register_task_targets_py2sfn_projects("well-formed")
    \/ register_task_targets_tests("well-formed")
    \/ register_extra_targets("well-formed")
    \/ gather_dependencies("well-formed")
    \/ build_target_graph
    \/ ensure_no_circular_imports
    \/ generate_build_files
    \/ generate_build_file
    \/ compute_package_dependencies

SpecClean == InitClean /\ [][NextClean]_vars

----------------------------------------------------------------------------
(* register_packages called a second time on the same processor, in the     *)
(* well-formed repository, which has not changed.                           *)

\* the graph that the first run built
FirstRun(graph) == [nodes |-> NodeKeys(graph), edges |-> graph.edges]

\* the second call of register_packages: the sweeps start again on the
\* registry of the first run; ret keeps the graph of the first run
register_packages_again ==
    /\ pc = "registered"
    /\ ret = NoValue
    /\ ret' = FirstRun(target_graph)
    /\ pc' = "register_task_targets_code"
    /\ UNCHANGED <<cmd, ignore_targets, targets, dependencies, target_graph,
                   error, result, generated, checked, found, applied, arg>>

NextTwice ==
    \/ register_task_targets_code("well-formed")
    \/ register_task_targets_py2sfn_projects("well-formed")
    \/ register_task_targets_tests("well-formed")
    \/ register_extra_targets("well-formed")
    \/ gather_dependencies("well-formed")
    \/ build_target_graph
    \/ register_packages_again

SpecTwice == InitClean /\ [][NextTwice]_vars

----------------------------------------------------------------------------
(* add_dependency on its own: any calls, in any order, on one target of a   *)
(* registry that the sweeps have filled                                     *)

\* the registries of the repositories lib/a; lib/a, lib/b; lib/a, lib/b,
\* lib/c; each with and without the project stepfunctions/projects/w; and
\* of the repository with a package and a project folder at
\* stepfunctions/projects/src
ResolveRegistries ==
    { register_projects_loop(<<"src">>,
         register_code_loop(<<[top |-> <<"stepfunctions">>, rel |-> <<"projects">>,
                               name |-> <<"c">>, src |-> "one"]>>,
                            EmptyMap, {}).targets, {}).targets }
    \cup
    { register_projects_loop(projects,
                             register_code_loop(walk, EmptyMap, {}).targets,
                             {}).targets :
        walk \in { <<WellFormedEntry(<<"a">>)>>,
                   <<WellFormedEntry(<<"a">>), WellFormedEntry(<<"b">>)>>,
                   <<WellFormedEntry(<<"a">>), WellFormedEntry(<<"b">>),
                     WellFormedEntry(<<"c">>)>> },
        projects \in { <<>>, <<"w">> } }

InitResolve ==
    /\ pc = "add_dependency"
    /\ cmd = "process_packages"
    /\ ignore_targets = {}
    /\ targets \in ResolveRegistries
    /\ dependencies = [k \in DOMAIN targets |-> {}]
    /\ \E k \in DOMAIN targets : applied = [self |-> k, names |-> <<>>]
    /\ target_graph = EmptyGraph
    /\ error = NoError
    /\ result = NoResult
    /\ generated = {}
    /\ checked = FALSE
    /\ found = 0
    /\ arg = NoValue
    /\ ret = NoValue

\* one call target.add_dependency(self._targets, package_name)
target_add_dependency ==
    /\ pc = "add_dependency"
    /\ Len(applied.names) < MaxApplied
    /\ \E package_name \in ImportNames :
         /\ dependencies' =
               [dependencies EXCEPT ![applied.self] =
                   add_dependency(targets[applied.self], targets, package_name, @)]
         /\ applied' = [applied EXCEPT !.names = Append(@, package_name)]
    /\ UNCHANGED <<pc, cmd, ignore_targets, targets, target_graph, error, result,
                   generated, checked, found, arg, ret>>

NextResolve == target_add_dependency

SpecResolve == InitResolve /\ [][NextResolve]_vars

----------------------------------------------------------------------------
(* A py2sfn project on its own: what _gather_dependencies does for the      *)
(* project target, first with the names its files import, then with         *)
(* set_extra_dependencies                                                   *)

\* PY2SFNProjectPackage.find_target_paths: the project.sfn of the project
find_target_paths(self) == << self.key \o <<"project.sfn">> >>

\* tasks a project.sfn may hold: workers and lambdas, the package first or
\* last in the module path
ProjectTasks ==
    { [service |-> sv, spec |-> module \o <<":", "Class">>] :
        sv \in { "ecs:worker", "lambda" },
        module \in { <<"a">>, <<"c", ".", "mod">>, <<"mod", ".", "c">> } }

\* the registries that hold a project
ProjectRegistries ==
    { tg \in ResolveRegistries :
        \E k \in DOMAIN tg : tg[k].target_type = "py2sfn-project" }

InitProject ==
    /\ pc = "scan_target_paths"
    /\ cmd = "process_packages"
    /\ ignore_targets = {}
    /\ targets \in ProjectRegistries
    /\ dependencies = [k \in DOMAIN targets |-> {}]
    /\ \E k \in DOMAIN targets :
         /\ targets[k].target_type = "py2sfn-project"
         /\ applied = [self |-> k, names |-> <<>>]
    /\ arg \in [imports : SubsetsUpTo(ImportNames, MaxImports),
                tasks : SubsetsUpTo(ProjectTasks, MaxTasks)]
    /\ ret = NoValue
    /\ target_graph = EmptyGraph
    /\ error = NoError
    /\ result = NoResult
    /\ generated = {}
    /\ checked = FALSE
    /\ found = 0

\* _gather_dependencies for the project, lines 79-98: its find_target_paths,
\* the scan of the files, add_dependency for every name found
scan_target_paths ==
    /\ pc = "scan_target_paths"
    /\ ret' = find_target_paths(targets[applied.self])
    /\ dependencies' =
          [dependencies EXCEPT ![applied.self] =
              add_dependencies(targets[applied.self], targets, arg.imports, @)]
    /\ pc' = "set_extra_dependencies"
    /\ UNCHANGED <<cmd, ignore_targets, targets, target_graph, error, result,
                   generated, checked, found, applied, arg>>

\* _gather_dependencies for the project, lines 102-103
target_set_extra_dependencies ==
    /\ pc = "set_extra_dependencies"
    /\ dependencies' =
          [dependencies EXCEPT ![applied.self] =
              set_extra_dependencies(targets[applied.self], targets, arg.tasks, @)]
    /\ pc' = "project_resolved"
    /\ UNCHANGED <<cmd, ignore_targets, targets, target_graph, error, result,
                   generated, checked, found, applied, arg, ret>>

NextProject == scan_target_paths \/ target_set_extra_dependencies

SpecProject == InitProject /\ [][NextProject]_vars

----------------------------------------------------------------------------
(* _gather_dependencies step by step: the workers of the pool return in any  *)
(* order, then the loop over the (target, names) pairs, then the loop of     *)
(* set_extra_dependencies, then _build_target_graph.                         *)
(* arg is target_paths and the tasks of every project.sfn, ret is            *)
(* imported_package_names_per_path as far as the workers have filled it,     *)
(* applied counts the pairs and the targets the two loops have done and      *)
(* lists the paths in the order their workers returned.                      *)

\* the registries of lib/a, lib/b without and with the project w
GatherRegistries ==
    { tg \in ResolveRegistries :
        { <<"a">>, <<"b">> } \subseteq DOMAIN tg /\ <<"c">> \notin DOMAIN tg }

\* what a file holds: the names it imports, or text that does not parse
FileContents ==
    { [imports |-> I, parses |-> TRUE] :
        I \in { {}, { <<"b">> }, { <<"a">>, <<"r">> } } }
    \cup { [imports |-> {}, parses |-> FALSE] }

\* the place of the target registered under k in self._targets.values()
PositionOf(tg, k) ==
    CHOOSE i \in DOMAIN ValuesOf(tg) : ValuesOf(tg)[i] = tg[k]

\* target_paths: the files of every target, target after target in the
\* order of the registry; a project has its project.sfn and nothing else
TargetPaths(tg) ==
    UNION { { tp \in [1..n -> [target : DOMAIN tg, file : FileContents]] :
                /\ \A i, j \in 1..n :
                      i < j => PositionOf(tg, tp[i].target)
                                  <= PositionOf(tg, tp[j].target)
                /\ \A k \in DOMAIN tg :
                      tg[k].target_type = "py2sfn-project" =>
                          Cardinality({ i \in 1..n : tp[i].target = k })
                              = Len(find_target_paths(tg[k])) }
            : n \in 0..MaxPaths }

\* the tasks of the project.sfn of every project
TasksOf(tg) ==
    [ { k \in DOMAIN tg : tg[k].target_type = "py2sfn-project" }
        -> { {}, { WorkerTask(<<"a">>) } } ]

NoProgress == [paths |-> 0, targets |-> 0, order |-> <<>>]

InitGather ==
    /\ pc = "pool.map"
    /\ targets \in GatherRegistries
    /\ \E tp \in TargetPaths(targets), tasks \in TasksOf(targets) :
          arg = [target_paths |-> tp, tasks |-> tasks]
    /\ ret = EmptyMap
    /\ applied = NoProgress
    /\ dependencies = [k \in DOMAIN targets |-> {}]
    /\ cmd = "process_packages"
    /\ ignore_targets = {}
    /\ target_graph = EmptyGraph
    /\ error = NoError
    /\ result = NoResult
    /\ generated = {}
    /\ checked = FALSE
    /\ found = 0

\* a result list filled in the order in which the workers return
store_result_in_completion_order(results, i, names) ==
    Put(results, Cardinality(DOMAIN results) + 1, names)

\* pool.map: the result of the i-th path is the i-th item of the list
store_result(results, i, names) == Put(results, i, names)

\* pool.map has every result
AllScanned == DOMAIN ret = 1..Len(arg.target_paths)

\* a worker returns gather_dependencies_from_module(paths[i])
pool_worker_returns ==
    /\ pc = "pool.map"
    /\ \E i \in 1..Len(arg.target_paths) :
          /\ i \notin Range(applied.order)
          /\ arg.target_paths[i].file.parses
          /\ ret' = store_result(ret, i, arg.target_paths[i].file.imports)
          /\ applied' = [applied EXCEPT !.order = Append(@, i)]
    /\ UNCHANGED <<pc, cmd, ignore_targets, targets, dependencies, target_graph,
                   error, result, generated, checked, found, arg>>

\* a failure of the pool after which the results at hand are applied
pool_worker_raises_after_partial ==
    /\ pc = "pool.map"
    /\ \E i \in 1..Len(arg.target_paths) :
          /\ i \notin Range(applied.order)
          /\ ~arg.target_paths[i].file.parses
    /\ dependencies' =
          [k \in DOMAIN targets |->
             add_dependencies(targets[k], targets,
                              UNION { ret[j] : j \in { x \in DOMAIN ret :
                                          arg.target_paths[x].target = k } },
                              dependencies[k])]
    /\ error' = Raise("SyntaxError")
    /\ pc' = "failed"
    /\ UNCHANGED <<cmd, ignore_targets, targets, target_graph, result,
                   generated, checked, found, applied, arg, ret>>

\* a worker raises the SyntaxError of ast.parse: pool.map raises it in
\* _gather_dependencies, which ends, and register_packages with it
pool_worker_raises ==
    /\ pc = "pool.map"
    /\ \E i \in 1..Len(arg.target_paths) :
          /\ i \notin Range(applied.order)
          /\ ~arg.target_paths[i].file.parses
    /\ error' = Raise("SyntaxError")
    /\ pc' = "failed"
    /\ UNCHANGED <<cmd, ignore_targets, targets, dependencies, target_graph,
                   result, generated, checked, found, applied, arg, ret>>

\* pool.map returns the list of results
pool_map_returns ==
    /\ pc = "pool.map"
    /\ AllScanned
    /\ pc' = "add_dependency"
    /\ UNCHANGED <<cmd, ignore_targets, targets, dependencies, target_graph,
                   error, result, generated, checked, found, applied, arg, ret>>

\* a loop over the pairs that calls set_extra_dependencies on the target of
\* each pair as soon as the names of the pair are added
zip_add_dependency_with_extra ==
    /\ pc = "add_dependency"
    /\ IF applied.paths = Len(arg.target_paths)
       THEN /\ pc' = "set_extra_dependencies"
            /\ UNCHANGED <<dependencies, applied>>
       ELSE LET i == applied.paths + 1
                k == arg.target_paths[i].target
                tasks == IF k \in DOMAIN arg.tasks THEN arg.tasks[k] ELSE {}
            IN /\ dependencies' =
                     [dependencies EXCEPT ![k] =
                        set_extra_dependencies(targets[k], targets, tasks,
                            add_dependencies(targets[k], targets, ret[i], @))]
               /\ applied' = [applied EXCEPT !.paths = i]
               /\ UNCHANGED pc
    /\ UNCHANGED <<cmd, ignore_targets, targets, target_graph, error, result,
                   generated, checked, found, arg, ret>>

\* one round of the loop over zip(target_paths,
\* imported_package_names_per_path), or its end
zip_add_dependency ==
    /\ pc = "add_dependency"
    /\ IF applied.paths = Len(arg.target_paths)
       THEN /\ pc' = "set_extra_dependencies"
            /\ UNCHANGED <<dependencies, applied>>
       ELSE LET i == applied.paths + 1
                k == arg.target_paths[i].target
            IN /\ dependencies' =
                     [dependencies EXCEPT ![k] =
                        add_dependencies(targets[k], targets, ret[i], @)]
               /\ applied' = [applied EXCEPT !.paths = i]
               /\ UNCHANGED pc
    /\ UNCHANGED <<cmd, ignore_targets, targets, target_graph, error, result,
                   generated, checked, found, arg, ret>>

\* one round of the loop that calls target.set_extra_dependencies, or its end
each_set_extra_dependencies ==
    /\ pc = "set_extra_dependencies"
    /\ IF applied.targets = Len(ValuesOf(targets))
       THEN /\ pc' = "build_target_graph"
            /\ UNCHANGED <<dependencies, applied>>
       ELSE LET target == ValuesOf(targets)[applied.targets + 1]
                k == CHOOSE x \in DOMAIN targets : targets[x] = target
                tasks == IF k \in DOMAIN arg.tasks THEN arg.tasks[k] ELSE {}
            IN /\ dependencies' =
                     [dependencies EXCEPT ![k] =
                        set_extra_dependencies(target, targets, tasks, @)]
               /\ applied' = [applied EXCEPT !.targets = @ + 1]
               /\ UNCHANGED pc
    /\ UNCHANGED <<cmd, ignore_targets, targets, target_graph, error, result,
                   generated, checked, found, arg, ret>>

NextGather ==
    \/ pool_worker_returns
    \/ pool_worker_raises
    \/ pool_map_returns
    \/ zip_add_dependency
    \/ each_set_extra_dependencies
    \/ build_target_graph

SpecGather == InitGather /\ [][NextGather]_vars

----------------------------------------------------------------------------
(* _register_extra_targets on its own: one run of the hook of               *)
(* .pypants/targets.py over a registry, with the warning it logs.           *)

\* the names under which the hook may return a target
ExtraNames == { <<"a">>, <<"b">>, <<"d">> }

\* .pypants/targets.py: missing, or a hook that returns targets of ext/
\* under some of the names
HookResults ==
    { NoExtraTargets }
    \cup { [exists |-> TRUE,
            targets |-> [n \in names |-> ExtraTarget(n, <<"ext">>)]] :
            names \in SUBSET ExtraNames }

\* what logger.warning was called with; no names when it was not called
Warning(existing_target_names) == [warning |-> existing_target_names]

InitExtra ==
    /\ pc = "register_extra_targets"
    /\ targets \in ResolveRegistries
    /\ arg \in HookResults
    /\ ret = NoValue
    /\ cmd = "process_packages"
    /\ ignore_targets = {}
    /\ dependencies = EmptyMap
    /\ target_graph = EmptyGraph
    /\ error = NoError
    /\ result = NoResult
    /\ generated = {}
    /\ checked = FALSE
    /\ found = 0
    /\ applied = NoApplied

\* one call of _register_extra_targets
processor_register_extra_targets ==
    /\ pc = "register_extra_targets"
    /\ IF ~arg.exists
       THEN UNCHANGED <<targets, ret>>
       ELSE LET existing_target_names == DOMAIN targets \cap DOMAIN arg.targets
            IN /\ ret' = IF Cardinality(existing_target_names) > 0
                         THEN Warning(existing_target_names)
                         ELSE ret
               /\ targets' = update(targets, arg.targets)
    /\ pc' = "extra_targets_registered"
    /\ UNCHANGED <<cmd, ignore_targets, dependencies, target_graph, error,
                   result, generated, checked, found, applied, arg>>

NextExtra == processor_register_extra_targets

SpecExtra == InitExtra /\ [][NextExtra]_vars

----------------------------------------------------------------------------
(* The import scanner on its own: util.gather_dependencies_from_module on   *)
(* one module.  A dotted name is the list of its segments and dots.         *)

\* node.module of "from . import x"
None == <<>>

\* ast.Import: import <names>, each an alias with a name and an asname
Import(names) ==
    [type |-> "Import", names |-> names, module |-> None, level |-> 0]

\* ast.ImportFrom: from <level dots><module> import ...
ImportFrom(module, level) ==
    [type |-> "ImportFrom", names |-> <<>>, module |-> module, level |-> level]

alias(name, asname) == [name |-> name, asname |-> asname]

\* the import statements a module may hold
Statements ==
    { Import(<<alias(<<"x">>, None)>>),
      Import(<<alias(<<"x", ".", "y">>, None)>>),
      Import(<<alias(<<"x">>, <<"y">>)>>),
      Import(<<alias(<<"x">>, None), alias(<<"z">>, None)>>),
      Import(<<alias(<<"z", ".", "y">>, None), alias(<<"x">>, None)>>),
      ImportFrom(<<"x">>, 0),
      ImportFrom(<<"x", ".", "y">>, 0),
      ImportFrom(None, 1),
      ImportFrom(<<"mod">>, 1),
      ImportFrom(<<"mod", ".", "y">>, 2) }

\* the bodies of the modules: up to MaxStatements statements
Modules == UNION { [1..n -> Statements] : n \in 0..MaxStatements }

\* ModuleImportVisitor.visit_Import
visit_Import(imports, node) ==
    imports \cup { SplitFirst(node.names[1].name, ".") }

\* ModuleImportVisitor.visit_ImportFrom
visit_ImportFrom(imports, node) ==
    IF node.module # None
    THEN imports \cup { SplitFirst(node.module, ".") }
    ELSE imports

\* visitor.visit(tree) over the statements of the module, in order
RECURSIVE visit(_, _)
visit(imports, body) ==
    IF body = <<>> THEN imports
    ELSE visit(IF Head(body).type = "Import"
               THEN visit_Import(imports, Head(body))
               ELSE visit_ImportFrom(imports, Head(body)),
               Tail(body))

\* util.gather_dependencies_from_module on a module that parses
gather_dependencies_from_module(body) == visit({}, body)

InitScan ==
    /\ pc = "gather_dependencies_from_module"
    /\ arg \in Modules
    /\ ret = NoValue
    /\ cmd = "process_packages"
    /\ ignore_targets = {}
    /\ targets = EmptyMap
    /\ dependencies = EmptyMap
    /\ target_graph = EmptyGraph
    /\ error = NoError
    /\ result = NoResult
    /\ generated = {}
    /\ checked = FALSE
    /\ found = 0
    /\ applied = NoApplied

\* one call of gather_dependencies_from_module in the pool
scan_module ==
    /\ pc = "gather_dependencies_from_module"
    /\ ret' = gather_dependencies_from_module(arg)
    /\ pc' = "module_scanned"
    /\ UNCHANGED <<cmd, ignore_targets, targets, dependencies, target_graph,
                   error, result, generated, checked, found, applied, arg>>

NextScan == scan_module

SpecScan == InitScan /\ [][NextScan]_vars

----------------------------------------------------------------------------
(* dependency_target on its own: the string by which the BUILD file of a    *)
(* dependent names a target                                                 *)

\* build_targets.BUILD_TARGET_MAP: the package types and their classes
BUILD_TARGET_MAP ==
    { "behave", "binary", "lambda", "library", "migration", "py2sfn_project",
      "requirement", "test" }

\* the class a class extends
BaseClassOf(cls) ==
    CASE cls = "behave" -> "test"
      [] cls = "lambda" -> "binary"
      [] cls \in { "binary", "library", "migration", "py2sfn_project", "test" } ->
            "PythonPackage"
      [] OTHER -> "BuildTarget"

\* the classes that define the property dependency_target themselves
DefinesDependencyTarget == { "binary", "lambda", "BuildTarget" }

\* the class whose dependency_target an instance of cls runs: the nearest
\* one, from cls up, that defines it
RECURSIVE DependencyTargetOwner(_)
DependencyTargetOwner(cls) ==
    IF cls \in DefinesDependencyTarget THEN cls
    ELSE DependencyTargetOwner(BaseClassOf(cls))

\* target.dependency_target: f"{self.key}:lib" in PythonBinaryPackage and
\* PythonLambdaPackage, self.key in BuildTarget
dependency_target(cls, key) ==
    IF DependencyTargetOwner(cls) \in { "binary", "lambda" }
    THEN key \o <<":lib">>
    ELSE key

\* keys of targets of any kind
DescriptorKeys ==
    { <<"svc_a">>, <<"lib", "a", "src">>, <<"lib", "b", "src">>,
      <<"lib", "c", "src">>, <<"lib", "a", "tests", "unit">>,
      <<"stepfunctions", "projects", "w">>, <<"3rdparty", "python", ":", "R">> }

InitDescriptor ==
    /\ pc = "dependency_target"
    /\ arg \in [cls : BUILD_TARGET_MAP, key : DescriptorKeys]
    /\ ret = NoValue
    /\ cmd = "process_packages"
    /\ ignore_targets = {}
    /\ targets = EmptyMap
    /\ dependencies = EmptyMap
    /\ target_graph = EmptyGraph
    /\ error = NoError
    /\ result = NoResult
    /\ generated = {}
    /\ checked = FALSE
    /\ found = 0
    /\ applied = NoApplied

\* dependency.dependency_target, read for a dependency of a target when its
\* BUILD file is generated
get_dependency_target ==
    /\ pc = "dependency_target"
    /\ ret' = dependency_target(arg.cls, arg.key)
    /\ pc' = "dependency_target_returned"
    /\ UNCHANGED <<cmd, ignore_targets, targets, dependencies, target_graph,
                   error, result, generated, checked, found, applied, arg>>

NextDescriptor == get_dependency_target

SpecDescriptor == InitDescriptor /\ [][NextDescriptor]_vars

----------------------------------------------------------------------------
(* _register_task_targets_code on its own: one sweep over the setup.py      *)
(* files of a repository, with the type each .pypants.cfg configures and    *)
(* the class chosen for each target registered.                             *)

\* config.type of a package with no type in its .pypants.cfg
NotConfigured == "None"

\* config.type of a package: not configured, or a key of BUILD_TARGET_MAP
ConfigTypes == { NotConfigured, "binary", "migration" }

\* setup_py_paths of the sweep and config.type of each of its directories
CodeWalks ==
    UNION { [walk : { w \in AnyWalks(MaxWalk) : Len(w) = n },
             types : [1..n -> ConfigTypes]] : n \in 0..MaxWalk }

\* PythonPackageClass for config.type: PythonLibraryPackage by default
PythonPackageClass(package_type) ==
    IF package_type = NotConfigured THEN "library" ELSE package_type

\* the setup.py of the walk from which the target named n was built: the
\* first one with that package folder whose key is not ignored
RegisteredFrom(walk, n, ignore) ==
    CHOOSE i \in DOMAIN walk :
        /\ walk[i].src = "one" /\ walk[i].name = n
        /\ CodeTarget(walk[i]).key \notin ignore
        /\ \A j \in 1..(i - 1) :
              ~(/\ walk[j].src = "one" /\ walk[j].name = n
                /\ CodeTarget(walk[j]).key \notin ignore)

InitCode ==
    /\ pc = "register_task_targets_code"
    /\ arg \in CodeWalks
    /\ ignore_targets \in AnyIgnoreTargets
    /\ targets = EmptyMap
    /\ dependencies = EmptyMap
    /\ ret = NoValue
    /\ cmd = "process_packages"
    /\ target_graph = EmptyGraph
    /\ error = NoError
    /\ result = NoResult
    /\ generated = {}
    /\ checked = FALSE
    /\ found = 0
    /\ applied = NoApplied

\* one run of _register_task_targets_code; ret is the class of every target
\* it registered
processor_register_task_targets_code ==
    /\ pc = "register_task_targets_code"
    /\ LET r == register_code_loop(arg.walk, targets, ignore_targets)
       IN /\ targets' = r.targets
          /\ dependencies' = [k \in DOMAIN r.targets |-> {}]
          /\ ret' = [n \in DOMAIN r.targets \ DOMAIN targets |->
                       PythonPackageClass(
                           arg.types[RegisteredFrom(arg.walk, n, ignore_targets)])]
          /\ error' = r.error
          /\ pc' = IF r.error = NoError
                   THEN "register_task_targets_py2sfn_projects" ELSE "failed"
    /\ UNCHANGED <<cmd, ignore_targets, target_graph, result, generated,
                   checked, found, applied, arg>>

NextCode == processor_register_task_targets_code

SpecCode == InitCode /\ [][NextCode]_vars

\* the code sweep over directories that each hold one package folder and
\* configure no type, some with the package folder of another
DuplicateWalks ==
    UNION { { [walk |-> w, types |-> [i \in 1..n |-> NotConfigured]] :
                w \in { x \in [1..n -> { e \in WalkEntries : e.src = "one" }] :
                          \A i, j \in 1..n : i # j => ~SameDir(x[i], x[j]) } }
            : n \in 0..MaxDuplicateWalk }

InitDuplicates ==
    /\ pc = "register_task_targets_code"
    /\ arg \in DuplicateWalks
    /\ ignore_targets \in AnyIgnoreTargets
    /\ targets = EmptyMap
    /\ dependencies = EmptyMap
    /\ ret = NoValue
    /\ cmd = "process_packages"
    /\ target_graph = EmptyGraph
    /\ error = NoError
    /\ result = NoResult
    /\ generated = {}
    /\ checked = FALSE
    /\ found = 0
    /\ applied = NoApplied

SpecDuplicates == InitDuplicates /\ [][NextCode]_vars

----------------------------------------------------------------------------
(* Properties *)

\* the pairs <<a, b>> such that b is reached from a by one or more edges of R
RECURSIVE TransitiveClosure(_)
TransitiveClosure(R) ==
    LET joined == R \cup { <<p[1][1], p[2][2]>> :
                            p \in { q \in R \X R : q[1][2] = q[2][1] } }
    IN IF joined = R THEN R ELSE TransitiveClosure(joined)

Acyclic(G) == \A e \in TransitiveClosure(G.edges) : e[1] # e[2]

ReachableFrom(G, k) == { e[2] : e \in { x \in TransitiveClosure(G.edges) : x[1] = k } }

\* compute_package_dependencies has returned a list
Returned == pc = "done" /\ cmd = "compute_package_dependencies"

KeysIn(deps) == { deps[i].key : i \in DOMAIN deps }

\* C1: on an acyclic graph the list returned with include_3rdparty=True has,
\* for every edge A -> B between two of its members, B before A
C1_DependenciesBeforeDependents ==
    (Returned /\ result.include_3rdparty /\ Acyclic(target_graph)) =>
        \A i, j \in DOMAIN result.dependencies :
            <<result.dependencies[i].key, result.dependencies[j].key>>
                \in target_graph.edges
            => j < i

\* C2: on an acyclic graph the list returned with include_3rdparty=True holds
\* exactly the targets reached from the target asked for by one or more
\* edges, each once, and not the target itself
C2_ExactlyTheReachableTargets ==
    (Returned /\ result.include_3rdparty /\ Acyclic(target_graph)) =>
        LET T == targets[result.target_key]
        IN /\ KeysIn(result.dependencies) = ReachableFrom(target_graph, T.key)
           /\ Cardinality(KeysIn(result.dependencies)) = Len(result.dependencies)
           /\ T.key \notin KeysIn(result.dependencies)
           /\ \A i \in DOMAIN result.dependencies :
                 result.dependencies[i] \in target_graph.nodes

\* C2 witness: a list of two targets, one reached only through the other
C2_Witness ==
    /\ Returned /\ result.include_3rdparty /\ Acyclic(target_graph)
    /\ Len(result.dependencies) >= 2
    /\ \E i \in DOMAIN result.dependencies :
          <<targets[result.target_key].key, result.dependencies[i].key>>
              \notin target_graph.edges

\* a list with the requirements taken out, the rest in place
RECURSIVE WithoutRequirements(_)
WithoutRequirements(deps) ==
    IF deps = <<>> THEN <<>>
    ELSE IF Head(deps).target_type = "requirement"
    THEN WithoutRequirements(Tail(deps))
    ELSE <<Head(deps)>> \o WithoutRequirements(Tail(deps))

\* C3: the list returned with include_3rdparty=False is the list of
\* include_3rdparty=True with the requirements removed and nothing else
\* changed: every first-party target of the closure is in it, in the same
\* relative order
C3_OnlyRequirementsRemoved ==
    Returned =>
        LET T == targets[result.target_key]
            closure == ReachableFrom(target_graph, T.key) \ {T.key}
        IN /\ KeysIn(result.sorted) = closure
           /\ IF result.include_3rdparty
              THEN result.dependencies = result.sorted
              ELSE /\ result.dependencies = WithoutRequirements(result.sorted)
                   /\ KeysIn(result.dependencies) =
                        { n.key : n \in { m \in target_graph.nodes :
                                            m.key \in closure /\ ~IsRequirement(m) } }

\* C3 witness: requirements are dropped from a list that keeps a first-party
\* target reached only through another first-party target
C3_Witness ==
    /\ Returned /\ ~result.include_3rdparty
    /\ Len(result.dependencies) >= 2
    /\ Len(result.sorted) > Len(result.dependencies)
    /\ \E i \in DOMAIN result.dependencies :
          <<targets[result.target_key].key, result.dependencies[i].key>>
              \notin target_graph.edges

\* keys lists every element of S once, in ascending order
IsSortedListing(keys, S) ==
    /\ { keys[i] : i \in DOMAIN keys } = S
    /\ \A i, j \in DOMAIN keys : i < j => PathLess(keys[i], keys[j])

\* the unknown-key error read on the names of the registry: NoTargetFound is
\* raised only for a name that is not in the registry, with the names listed
\* in sorted order, and a call that gets past the lookup was given a name of
\* the registry
NoTargetFoundForUnregisteredNames ==
    /\ error.type = "NoTargetFound" =>
          /\ error.target_key \notin DOMAIN targets
          /\ IsSortedListing(error.keys, DOMAIN targets)
    /\ error.type = "NetworkXUnfeasible" => error.target_key \in DOMAIN targets
    /\ Returned => result.target_key \in DOMAIN targets

\* C4: compute_package_dependencies raises NoTargetFound for a key under
\* which no target is registered, the message listing the registry keys in
\* sorted order, it changes neither the registry nor the graph, and it does
\* not raise NoTargetFound when given the key of a registered target
C4_NoTargetFound ==
    /\ [](/\ NoTargetFoundForUnregisteredNames
          /\ error.type = "NoTargetFound" =>
                error.target_key \notin { targets[k].key : k \in DOMAIN targets })
    /\ [][(pc = "registered" /\ cmd = "compute_package_dependencies") =>
            /\ targets' = targets
            /\ dependencies' = dependencies
            /\ target_graph' = target_graph]_vars

\* the rotations of a list
RotationsOf(c) ==
    { [i \in 1..Len(c) |-> c[((i + k - 1) % Len(c)) + 1]] : k \in 0..(Len(c) - 1) }

\* c is a simple cycle of G: distinct nodes, an edge from each to the next and
\* from the last to the first
IsCircuit(G, c) ==
    /\ Len(c) >= 1
    /\ \A i, j \in DOMAIN c : i # j => c[i] # c[j]
    /\ \A i \in DOMAIN c : <<c[i], c[(i % Len(c)) + 1]>> \in G.edges

AllCircuits(G) ==
    UNION { { c \in [1..n -> NodeKeys(G)] : IsCircuit(G, c) }
            : n \in 1..Cardinality(NodeKeys(G)) }

\* C5: ensure_no_circular_imports raises exactly when the graph has a cycle,
\* and the error carries every simple cycle once, as an ordered list
C5_EverySimpleCycleOnce ==
    /\ error.type = "CircularImportsFound" =>
          /\ ~Acyclic(target_graph)
          /\ \A c \in error.cycles : IsCircuit(target_graph, c)
          /\ \A c \in AllCircuits(target_graph) :
                Cardinality(RotationsOf(c) \cap error.cycles) = 1
    /\ checked => Acyclic(target_graph)

\* C5 witness: the graph whose edges are a -> b, b -> c, c -> a gives one
\* cycle, of the three
C5_Witness ==
    /\ error.type = "CircularImportsFound"
    /\ Cardinality(target_graph.edges) = 3
    /\ Cardinality(error.cycles) = 1
    /\ \E c \in error.cycles : Len(c) = 3

\* C6: a dependency list is returned only from a graph whose cycle check has
\* passed
C6_NoListFromUnvalidatedGraph == Returned => checked

\* C7: BUILD files are generated only after the cycle check has passed on
\* the processor's graph
C7_GenerationOnlyAfterCycleCheck == generated # {} => checked

\* the three discovery sweeps have completed without error
SweepsDone == pc = "register_extra_targets" /\ error = NoError

\* C8: after the discovery sweeps have completed without error, the
\* registered targets have pairwise distinct keys
C8_PairwiseDistinctKeys ==
    SweepsDone =>
        \A k1, k2 \in DOMAIN targets :
            k1 # k2 => targets[k1].key # targets[k2].key

\* C9: after the discovery sweeps, every entry (k, t) of the registry has
\* t.key = k
C9_RegisteredUnderOwnKey ==
    SweepsDone => \A k \in DOMAIN targets : targets[k].key = k

\* C10: after dependency resolution no target is in its own dependency set,
\* and the graph has no self-loop
C10_NoSelfDependency ==
    /\ pc \in {"build_target_graph", "registered", "generate_build_files", "done"} =>
          \A k \in DOMAIN targets :
              \A d \in dependencies[k] : d.key # targets[k].key
    /\ \A e \in target_graph.edges : e[1] # e[2]

\* C11: the dependency set of a target depends only on which names were
\* applied, not on their order nor on how often each was applied: after any
\* sequence of add_dependency calls its keys are those of applying every
\* name of the sequence once, in one fixed order
C11_OrderIndependent ==
    pc = "add_dependency" =>
        KeysIn(SetToSeq(dependencies[applied.self])) =
            KeysIn(SetToSeq(add_dependencies(targets[applied.self], targets,
                                             Range(applied.names), {})))

\* C11 witness: a name applied twice with another name between, two
\* dependencies resolved
C11_Witness ==
    /\ pc = "add_dependency"
    /\ Len(applied.names) = 3
    /\ applied.names[1] = applied.names[3]
    /\ applied.names[1] # applied.names[2]
    /\ Cardinality(dependencies[applied.self]) = 2

\* the targets of package name n in the entries of the registry other than
\* the entry of the target that resolves
OthersNamed(n) ==
    { targets[k] : k \in { x \in DOMAIN targets \ {applied.self} :
                             targets[x].package_name = n } }

\* the keys the dependency set D of T must have after the name n is resolved
ResolvedKeys(D, n) ==
    IF OthersNamed(n) # {}
    THEN { d.key : d \in D } \cup { t.key : t \in OthersNamed(n) }
    ELSE IF n \in DOMAIN THIRD_PARTY_IMPORT_MAP
    THEN { d.key : d \in D }
         \cup { <<"3rdparty", "python", ":">> \o THIRD_PARTY_IMPORT_MAP[n] }
    ELSE { d.key : d \in D }

\* C12: resolving a name n for a target T adds the edge to the other
\* registered target of package name n if there is one, else the edge to the
\* requirement the third-party table gives for n if it has one, else nothing;
\* at most one edge is added; a importing b and r ends with exactly b and
\* the requirement R
C12_DefaultResolution ==
    /\ [][pc = "add_dependency" =>
            LET n == applied'.names[Len(applied'.names)]
                D == dependencies[applied.self]
                after == dependencies'[applied.self]
            IN /\ { d.key : d \in after } = ResolvedKeys(D, n)
               /\ Cardinality(after) <= Cardinality(D) + 1
               /\ D \subseteq after]_vars
    /\ []((/\ pc = "add_dependency"
           /\ applied.self = <<"a">>
           /\ <<"b">> \in DOMAIN targets
           /\ Range(applied.names) = { <<"b">>, <<"r">> })
          => { d.key : d \in dependencies[applied.self] } =
                { <<"lib", "b", "src">>, <<"3rdparty", "python", ":", "R">> })

\* C12 witness: b has resolved its imports of a, a registered package whose
\* name the third-party table holds too, and of r
C12_Witness ==
    /\ pc = "add_dependency"
    /\ applied.self = <<"b">>
    /\ applied.names = << <<"a">>, <<"r">> >>
    /\ { d.key : d \in dependencies[applied.self] } =
          { <<"lib", "a", "src">>, <<"3rdparty", "python", ":", "R">> }

\* C13: the string by which a dependent names a target is its key followed
\* by ":lib" for a binary, a lambda and a migration, and its key for every
\* other kind
C13_LibForRunnableKinds ==
    pc = "dependency_target_returned" =>
        ret = IF arg.cls \in { "binary", "lambda", "migration" }
              THEN arg.key \o <<":lib">>
              ELSE arg.key

\* C14: a py2sfn project gives no file to the import scan and gains no
\* dependency from an imported name: after the import phase its dependency
\* set is empty
C14_ProjectScansNoFile ==
    pc = "set_extra_dependencies" =>
        /\ ret = <<>>
        /\ dependencies[applied.self] = {}

\* the packages that the worker tasks of the project.sfn name: the first
\* segment of the module path of every task of service ecs:worker
WorkerPackages ==
    { <<t.spec[1]>> : t \in { x \in arg.tasks : x.service = "ecs:worker" } }

\* C15: set_extra_dependencies of a project adds, for every task of service
\* ecs:worker, the edge to the registered target named by the first segment
\* of the module path of its spec, if there is one; a task of another service
\* adds no edge
C15_WorkerSpecs ==
    [][pc = "set_extra_dependencies" =>
          LET D == dependencies[applied.self]
              after == dependencies'[applied.self]
              registered == { n \in WorkerPackages : OthersNamed(n) # {} }
          IN /\ \A n \in registered :
                   \A t \in OthersNamed(n) : t.key \in { d.key : d \in after }
             /\ { d.key : d \in after } \ { d.key : d \in D } \subseteq
                   UNION { ResolvedKeys({}, n) : n \in WorkerPackages }
             /\ D \subseteq after]_vars

\* C15 witness: a project.sfn with a worker of spec "c.mod:Class" and a
\* lambda of spec "a:Class", both packages registered, depends on c alone
C15_Witness ==
    /\ pc = "project_resolved"
    /\ arg.imports = {}
    /\ arg.tasks = { [service |-> "ecs:worker",
                      spec |-> <<"c", ".", "mod", ":", "Class">>],
                     [service |-> "lambda", spec |-> <<"a", ":", "Class">>] }
    /\ { d.key : d \in dependencies[applied.self] } = { <<"lib", "c", "src">> }

\* the statements of a module
StatementsOf(body) == { body[i] : i \in DOMAIN body }

\* the first segments of the modules that the absolute imports of a module
\* name: every name of every import statement, the module of every
\* from-import
ImportedSegments(body) ==
    UNION { { <<st.names[i].name[1]>> : i \in DOMAIN st.names } :
              st \in { x \in StatementsOf(body) : x.type = "Import" } }
    \cup { <<st.module[1]>> :
            st \in { x \in StatementsOf(body) :
                       x.type = "ImportFrom" /\ x.level = 0 } }

\* C16: for a module of absolute imports the scanner returns the first
\* segment of every module imported, whatever the form of the import: every
\* name of "import X", "import X as Y" and "import X, Z", the module of
\* "from X import Y"; nothing is missing and nothing is added
C16_EveryImportedModule ==
    (/\ pc = "module_scanned"
     /\ \A st \in StatementsOf(arg) : st.level = 0)
    => ret = ImportedSegments(arg)

\* C17: a relative import, "from . import x" or "from .mod import x" at any
\* level, adds no name: the scanner returns the empty set for a module of
\* relative imports
C17_RelativeImportsNotReported ==
    (/\ pc = "module_scanned"
     /\ \A st \in StatementsOf(arg) : st.type = "ImportFrom" /\ st.level >= 1)
    => ret = {}

\* C18: a syntax error in a scanned file is never raised out of the worker
\* pool: the dependency phase always completes and goes on to build the
\* graph, with no error raised by the pass
C18_ScanErrorNotRaised ==
    [][pc = "gather_dependencies" =>
         (pc' = "build_target_graph" /\ error' = NoError)]_vars

\* C19: when the hook returns a target under a key that is registered
\* already, registration does not fail, a warning is logged for the keys
\* that collide, the target of the hook is the one registered under each of
\* its keys, and every entry whose key the hook did not return is unchanged
C19_InjectedTargetWins ==
    [][(/\ pc = "register_extra_targets"
        /\ arg.exists
        /\ DOMAIN arg.targets \cap DOMAIN targets # {})
       => /\ pc' = "extra_targets_registered"
          /\ error' = NoError
          /\ ret' = Warning(DOMAIN arg.targets \cap DOMAIN targets)
          /\ DOMAIN targets' = DOMAIN targets \cup DOMAIN arg.targets
          /\ \A k \in DOMAIN arg.targets : targets'[k] = arg.targets[k]
          /\ \A k \in DOMAIN targets \ DOMAIN arg.targets :
                targets'[k] = targets[k]]_vars

\* the hook returned a and d over the registry of lib/a and lib/b: a warning
\* for a, the target of ext/a under a, lib/b as it was
C19_Witness ==
    /\ pc = "extra_targets_registered"
    /\ DOMAIN arg.targets = { <<"a">>, <<"d">> }
    /\ ret = Warning({ <<"a">> })
    /\ DOMAIN targets = { <<"a">>, <<"b">>, <<"d">> }
    /\ targets[<<"a">>] = ExtraTarget(<<"a">>, <<"ext">>)
    /\ targets[<<"b">>] = CodeTarget(WellFormedEntry(<<"b">>))

\* C20: the sweep of the tests directories runs before any project is
\* registered, and every target it registers is the tests target of a
\* registered code target for one of the categories, linked to it by name;
\* it registers none for a project and adds no dependency
C20_TestSuitesOnlyForCodeTargets ==
    [][pc = "register_task_targets_tests" =>
         /\ \A k \in DOMAIN targets : targets[k].target_type # "py2sfn-project"
         /\ \A k \in DOMAIN targets' \ DOMAIN targets :
               \E c \in DOMAIN targets, i \in DOMAIN TestDirTypes :
                   /\ targets[c].target_type = "code"
                   /\ targets'[k] = TestTarget(targets[c], TestDirTypes[i])
                   /\ targets'[k].code_target_package_name = targets[c].package_name
         /\ \A k \in DOMAIN targets' : dependencies'[k] = {}]_vars

\* the setup.py files of the walk that the sweep gets to: none before them
\* has several package folders or the package folder of an earlier one
Duplicate(walk, i, tg, ignore) ==
    /\ walk[i].src = "one"
    /\ CodeTarget(walk[i]).key \notin ignore
    /\ \/ walk[i].name \in DOMAIN tg
       \/ \E j \in 1..(i - 1) :
             /\ walk[j].src = "one" /\ walk[j].name = walk[i].name
             /\ CodeTarget(walk[j]).key \notin ignore

Visited(walk, i, tg, ignore) ==
    \A j \in 1..(i - 1) :
        walk[j].src # "many" /\ ~Duplicate(walk, j, tg, ignore)

\* the setup.py files visited that hold one package folder, neither ignored
\* nor registered already
Registrable(walk, tg, ignore) ==
    { i \in DOMAIN walk :
        /\ Visited(walk, i, tg, ignore)
        /\ walk[i].src = "one"
        /\ CodeTarget(walk[i]).key \notin ignore
        /\ ~Duplicate(walk, i, tg, ignore) }

\* C21: in the code sweep a directory whose src holds several package
\* folders aborts the pass with MultipleSourcePackagesFound; one whose src is
\* missing or holds no package folder registers nothing and raises nothing;
\* one with exactly one package folder (not ignored, not a duplicate)
\* registers exactly one target, of the configured kind, Library when no
\* kind is configured
C21_SourceFolders ==
    [][pc = "register_task_targets_code" =>
         LET walk == arg.walk
             new == DOMAIN targets' \ DOMAIN targets
             reg == Registrable(walk, targets, ignore_targets)
         IN /\ \A i \in DOMAIN walk :
                  (walk[i].src = "many" /\ Visited(walk, i, targets, ignore_targets))
                  => (pc' = "failed"
                      /\ error' = Raise("MultipleSourcePackagesFound"))
            /\ (\A i \in DOMAIN walk : walk[i].src \in {"none", "empty"})
                  => (targets' = targets /\ error' = NoError
                      /\ pc' = "register_task_targets_py2sfn_projects")
            /\ \A n \in new :
                  \E i \in reg : walk[i].name = n
            /\ \A i \in reg :
                  /\ walk[i].name \in new
                  /\ targets'[walk[i].name] = CodeTarget(walk[i])
                  /\ ret'[walk[i].name] =
                        (IF arg.types[i] = NotConfigured
                         THEN "library" ELSE arg.types[i])
            /\ Cardinality(new) = Cardinality(reg)
            /\ \A k \in DOMAIN targets : targets'[k] = targets[k]]_vars

\* a directory with an empty src, then lib/c with one package folder and
\* configured as a migration: one target, c, a migration
C21_Witness ==
    /\ pc = "register_task_targets_py2sfn_projects"
    /\ Len(arg.walk) = 2
    /\ arg.walk[1].src = "empty"
    /\ arg.walk[2] = WellFormedEntry(<<"c">>)
    /\ arg.types[2] = "migration"
    /\ DOMAIN targets = { <<"c">> }
    /\ ret[<<"c">>] = "migration"

\* C22: a second run of register_packages on unchanged input raises no error
\* and, once it has built its graph, the graph has the node keys and the
\* edges of the graph of the first run
C22_SecondRunSameGraph ==
    ret # NoValue =>
        /\ error = NoError
        /\ pc # "failed"
        /\ pc = "registered" => FirstRun(target_graph) = ret

\* the keys of a dependency set
DependencyKeys(deps) == { d.key : d \in deps }

\* the names imported by the files that the target registered under k owns
OwnImports(k) ==
    UNION { arg.target_paths[i].file.imports :
              i \in { x \in DOMAIN arg.target_paths :
                        arg.target_paths[x].target = k } }

\* the dependencies of the target registered under k that its own imports
\* resolve to
ImportEdges(k) == add_dependencies(targets[k], targets, OwnImports(k), {})

\* C23: within a pass no dependency set is changed before every scan has
\* returned; until the loop of set_extra_dependencies starts every
\* dependency of every target comes from an import, and that loop starts
\* only when the names of every pair are inserted; the graph is built only
\* when that loop has done every target, and no dependency set changes after
C23_TwoPhases ==
    /\ [](applied.targets > 0 => applied.paths = Len(arg.target_paths))
    /\ [](pc \in {"pool.map", "add_dependency"} =>
            /\ applied.targets = 0
            /\ \A k \in DOMAIN targets :
                  DependencyKeys(dependencies[k]) \subseteq DependencyKeys(ImportEdges(k)))
    /\ [](target_graph # EmptyGraph =>
            applied.targets = Len(ValuesOf(targets)))
    /\ [][/\ dependencies' # dependencies =>
               (AllScanned /\ pc \in {"add_dependency", "set_extra_dependencies"})
          /\ pc \in {"build_target_graph", "registered"} =>
               dependencies' = dependencies]_vars

\* the project w imports nothing and has a worker of package a, a file of
\* lib/a imports b: the graph is built with both edges
C23_Witness ==
    /\ pc = "registered"
    /\ <<"stepfunctions", "projects", "w">> \in DOMAIN targets
    /\ OwnImports(<<"stepfunctions", "projects", "w">>) = {}
    /\ <<<<"stepfunctions", "projects", "w">>, <<"lib", "a", "src">>>>
          \in target_graph.edges
    /\ <<<<"lib", "a", "src">>, <<"lib", "b", "src">>>> \in target_graph.edges

\* C24: when a worker of the pool fails, no result of the pool is used: no
\* dependency set is changed by the pass and no graph is built
C24_NoPartialResult ==
    pc = "failed" =>
        /\ \A k \in DOMAIN targets : dependencies[k] = {}
        /\ target_graph = EmptyGraph

\* a file of lib/a that imports b was scanned before the worker of another
\* file failed
C24_Witness ==
    /\ pc = "failed"
    /\ error = Raise("SyntaxError")
    /\ \E i \in DOMAIN ret :
          /\ arg.target_paths[i].target = <<"a">>
          /\ ret[i] = { <<"b">> }

\* C28: whatever the order in which the workers return, the i-th result is
\* the set of names of the i-th path, every round of the loop over the pairs
\* changes the dependency set of the owner of the path only, and when the
\* loop ends the dependencies of every target are those that the names of
\* its own files resolve to
C28_ResultsPairedWithOwners ==
    /\ [](\A i \in DOMAIN ret : ret[i] = arg.target_paths[i].file.imports)
    /\ []((pc = "set_extra_dependencies" /\ applied.targets = 0) =>
            \A k \in DOMAIN targets : dependencies[k] = ImportEdges(k))
    /\ [][pc = "add_dependency" =>
            \A k \in DOMAIN targets :
                dependencies'[k] # dependencies[k] =>
                    /\ applied'.paths = applied.paths + 1
                    /\ arg.target_paths[applied'.paths].target = k]_vars

\* the worker of the second path, a file of lib/b that imports a and r,
\* returned before the worker of the first, a file of lib/a that imports b
C28_Witness ==
    /\ pc = "set_extra_dependencies"
    /\ applied.order = <<2, 1>>
    /\ arg.target_paths[1].target = <<"a">>
    /\ arg.target_paths[2].target = <<"b">>
    /\ ret[1] = { <<"b">> }
    /\ ret[2] = { <<"a">>, <<"r">> }
    /\ DependencyKeys(dependencies[<<"a">>]) = { <<"lib", "b", "src">> }
    /\ Cardinality(dependencies[<<"b">>]) = 2
    /\ <<"lib", "a", "src">> \in DependencyKeys(dependencies[<<"b">>])

\* the package names that several directories of the walk, none of them
\* ignored, would register
DuplicateNames(walk, ignore) ==
    { walk[i].name : i \in { x \in DOMAIN walk :
        /\ CodeTarget(walk[x]).key \notin ignore
        /\ \E y \in DOMAIN walk :
              /\ y # x
              /\ walk[y].name = walk[x].name
              /\ CodeTarget(walk[y]).key \notin ignore } }

\* C25: the DuplicateTarget error of a pass reports every duplicate key of
\* the pass, not just the first one that the sweep comes to
C25_AllDuplicatesReported ==
    (pc = "failed" /\ error.type = "DuplicateTarget")
    => Range(error.keys) = DuplicateNames(arg.walk, ignore_targets)

\* C26: a Requirement is a leaf of every graph that a pass builds: no edge
\* starts at a Requirement node; and no Requirement is a registered target,
\* so none has a dependency set or gives a file to the scan
C26_RequirementIsLeaf ==
    /\ \A n \in target_graph.nodes :
          IsRequirement(n) => \A e \in target_graph.edges : e[1] # n.key
    /\ \A k \in DOMAIN targets : ~IsRequirement(targets[k])
    /\ \A k \in DOMAIN dependencies : k \in DOMAIN targets

\* a graph in which lib/a depends on the Requirement R
C26_Witness ==
    /\ pc = "registered"
    /\ PythonRequirement(<<"R">>) \in target_graph.nodes
    /\ <<<<"lib", "a", "src">>, PythonRequirement(<<"R">>).key>>
          \in target_graph.edges

\* C27: the graph that a pass builds mirrors the dependency sets: every
\* registered target is a node, also one without any edge; there is an edge
\* A -> B exactly when B is in the dependencies of a registered target A;
\* every node is a registered target or a dependency of one; no two nodes
\* have the same key
C27_GraphMirrorsDependencies ==
    (pc = "registered" \/ target_graph # EmptyGraph) =>
        /\ \A k \in DOMAIN targets : targets[k].key \in NodeKeys(target_graph)
        /\ target_graph.edges =
              UNION { { <<targets[k].key, d.key>> : d \in dependencies[k] }
                      : k \in DOMAIN targets }
        /\ NodeKeys(target_graph) =
              { targets[k].key : k \in DOMAIN targets }
              \cup { d.key : d \in UNION Range(dependencies) }
        /\ \A n1, n2 \in target_graph.nodes : n1.key = n2.key => n1 = n2

\* lib/a and lib/b both depend on the Requirement R, which is one node, and
\* lib/c is a node without any edge
C27_Witness ==
    /\ pc = "registered"
    /\ DOMAIN targets = { <<"a">>, <<"b">>, <<"c">> }
    /\ dependencies[<<"a">>] = { PythonRequirement(<<"R">>) }
    /\ dependencies[<<"b">>] = { PythonRequirement(<<"R">>) }
    /\ dependencies[<<"c">>] = {}
    /\ Cardinality(target_graph.nodes) = 4
    /\ Cardinality(target_graph.edges) = 2
    /\ <<"lib", "c", "src">> \in NodeKeys(target_graph)

\* C29: add_dependency with the package name of the target itself never
\* changes the dependency set of the target, also when that name is a key of
\* the third-party import table
C29_OwnNameChangesNothing ==
    [][(/\ pc = "add_dependency"
        /\ Len(applied'.names) = Len(applied.names) + 1
        /\ applied'.names[Len(applied'.names)]
              = targets[applied.self].package_name)
       => dependencies' = dependencies]_vars

\* C30: once the four sweeps are done no registered target has a key of
\* ignore_targets, so none is a node of the graph with edges of its own and
\* none gets a BUILD file
C30_IgnoredTargetsNotRegistered ==
    pc \in {"gather_dependencies", "build_target_graph", "registered",
            "generate_build_files", "done"} =>
        /\ \A k \in DOMAIN targets : targets[k].key \notin ignore_targets
        /\ \A e \in target_graph.edges : e[1] \notin ignore_targets
        /\ \A k \in generated : targets[k].key \notin ignore_targets

====
